---------------------------- MODULE Spec2Model ----------------------------
(***************************************************************************)
(* DwtSystick: a Monotonic built from the DWT cycle counter (CYCCNT, an    *)
(* up-counter) and SysTick (a 24-bit down-counter), src/src/lib.rs.        *)
(*                                                                         *)
(* Widths are scaled down so that wraparound is reachable: CYCCNT has      *)
(* CycBits bits (32 in the code), the high half of `last` has HighBits     *)
(* bits (32 in the code) and SysTick has SystBits bits (24 in the code).   *)
(* All arithmetic is done modulo the scaled widths exactly where the code  *)
(* does it modulo the real ones.                                           *)
(***************************************************************************)
EXTENDS Integers, Sequences, FiniteSets, TLC

\* ------------------------------------------------------------- bounds ---
CycBits == 4
HighBits == 2
SystBits == 2
\* Laps of CYCCNT the hardware is followed through.
MaxWraps == 4
\* The most cycles between the hardware reads of two calls for the second
\* call to count as made immediately after the first.
Latency == 2

RECURSIVE Pow2(_)
Pow2(n) == IF n = 0 THEN 1 ELSE 2 * Pow2(n - 1)

\* 2^32 in the code: the modulus of CYCCNT and of the low half of `last`.
CycMod == Pow2(CycBits)
\* 2^32 in the code: the modulus of the high half of `last`.
HighMod == Pow2(HighBits)
\* 0xff_ffff in the code: the largest SysTick reload value.
MaxReload == Pow2(SystBits) - 1

\* The generic parameter TIMER_HZ (in MHz).
TIMER_HZ == 48
\* Values of `sysclk` handed to new().
SysClks == {8, 48}

\* A field that holds nothing (no adapter yet, no argument, no result).
Null == 0 - 1

VARIABLES
    extend,         \* the `extend` feature: TRUE = wide (u64), FALSE = narrow (u32)
    has_cyccnt,     \* DWT::has_cycle_counter() of this chip
    phase,          \* "boot" | "running" | "aborted" | "panicked"
    hwops,          \* the hardware operations new() performed, in order
    cyccnt,         \* DWT CYCCNT
    dwt_enabled,    \* DWT CYCCNTENA
    wraps,          \* ghost: number of times CYCCNT wrapped since construction
    read_at,        \* ghost (wide): true cycles elapsed when `last` was last updated
    late,           \* ghost (wide): some update of `last` came CycMod or more cycles
                    \* after the one before
    syst_enabled,   \* SysTick ENABLE
    syst_clk,       \* SysTick CLKSOURCE
    syst_rvr,       \* SysTick reload value register
    syst_cvr,       \* SysTick current value register
    cycle_offset,   \* DwtSystick.cycle_offset (ticks)
    last,           \* DwtSystick.last (wide configuration only)
    op,             \* the operation that has just completed
    syst_tickint,   \* SysTick TICKINT: the timer interrupt is enabled
    pending,        \* the SysTick exception is pending
    wake,           \* the scheduler's queue: the instant of its wake-up, or Null
    isr_pc,         \* where the timer interrupt handler is: "idle", "cleared", "read"
    reset_at,       \* ghost: true cycles elapsed at the read of a reset() that
                    \* returned at most Latency cycles ago with no call since
    call            \* the task-context call that is in progress, step by step

vars == <<extend, has_cyccnt, phase, hwops, cyccnt, dwt_enabled, wraps, read_at,
          late, syst_enabled, syst_clk, syst_rvr, syst_cvr, cycle_offset, last, op,
          syst_tickint, pending, wake, isr_pc, reset_at, call>>

\* The scheduler's side: the interrupt line and the timer queue.
sched == <<syst_tickint, pending, wake, isr_pc>>

hw == <<has_cyccnt, dwt_enabled, syst_enabled, syst_clk>>

\* --------------------------------------------------- the instant type ---
\* The width of TimerInstant's ticks: u64 with `extend`, u32 without.
InstMod == IF extend THEN HighMod * CycMod ELSE CycMod

\* fugit Instant::const_cmp: wrapping_sub, then the half range decides.
\* "Less" when self is in the half range behind other.
const_cmp(self, other) ==
    LET v == (self - other) % InstMod
        half == (InstMod - 1) \div 2
    IN  IF self = other THEN "Equal"
        ELSE IF v > half THEN "Less"
        ELSE IF v < half THEN "Greater"
        ELSE "Equal"

\* fugit Instant::checked_duration_since: Some(ticks) or None (Null).
checked_duration_since(self, other) ==
    IF const_cmp(self, other) \in {"Greater", "Equal"}
    THEN (self - other) % InstMod
    ELSE Null

\* --------------------------------------------------------- the adapter ---
\* name: the operation; arg: its argument; now: the value its call of
\* unadjusted_now() returned; ret: its result; old: the reload register
\* before it (for the operations that write SysTick), cycle_offset before
\* it (for reset()).
\* gap: for adjusted_now() called right after reset(), the cycles between
\* the two hardware reads. at: for set_compare(), the true cycles elapsed
\* when it returned.
NoOp == [name |-> "none", arg |-> Null, now |-> Null, ret |-> Null, old |-> Null,
         gap |-> Null, at |-> Null]

\* No call in progress.
NoCall == [name |-> "none"]

\* True number of cycles since construction.
Elapsed == wraps * CycMod + cyccnt

\* Mutant of ExtendLast: the overflow test written `now <= low`.
ExtendLast_LowerOrEqual(l, now) ==
    LET high == l \div CycMod
        low == l % CycMod
        high2 == IF now <= low THEN (high + 1) % HighMod ELSE high
    IN  high2 * CycMod + now

\* unadjusted_now(), wide: the new value of `last` for a CYCCNT reading.
ExtendLast(l, now) ==
    LET high == l \div CycMod
        low == l % CycMod
        high2 == IF now < low THEN (high + 1) % HighMod ELSE high
    IN  high2 * CycMod + now

\* unadjusted_now(): the value returned.
unadjusted_now == IF extend THEN ExtendLast(last, cyccnt) ELSE cyccnt

\* Mutant of MonotonicNow: now() returns the adjusted reading.
MonotonicNow_Adjusted == (unadjusted_now - cycle_offset) % InstMod

\* Monotonic::now(): the value returned.
MonotonicNow == unadjusted_now

\* What unadjusted_now() does to the adapter (and to the ghosts).
ReadEffect ==
    IF extend
    THEN /\ last' = unadjusted_now
         /\ late' = (late \/ Elapsed - read_at >= CycMod)
         /\ read_at' = IF late' THEN 0 ELSE Elapsed
    ELSE UNCHANGED <<last, read_at, late>>

\* Mutant of adjusted_ticks: the offset is not subtracted.
adjusted_ticks_NoOffset(unadjusted, checked) == unadjusted

\* Mutant of adjusted_ticks: the operands of the subtraction exchanged.
adjusted_ticks_Reversed(unadjusted, checked) ==
    IF cycle_offset >= unadjusted THEN cycle_offset - unadjusted
    ELSE IF checked THEN Null
    ELSE (cycle_offset - unadjusted) % InstMod

\* adjusted_now(): unadjusted - cycle_offset on the ticks' integer type.
\* Null when the subtraction underflows and the build checks overflow.
adjusted_ticks(unadjusted, checked) ==
    IF unadjusted >= cycle_offset THEN unadjusted - cycle_offset
    ELSE IF checked THEN Null
    ELSE (unadjusted - cycle_offset) % InstMod

\* Mutant of Reload: without `.max(1)`.
Reload_NoMin(val, now) ==
    LET dur == checked_duration_since(val, now)
        ticks == IF dur = Null THEN 0 ELSE dur
    IN  IF ticks < MaxReload THEN ticks ELSE MaxReload

\* Mutant of Reload: `as u32` applied before the clamping instead of after.
Reload_CastFirst(val, now) ==
    LET dur == checked_duration_since(val, now)
        ticks == IF dur = Null THEN 0 ELSE dur % CycMod
        atleast == IF ticks > 1 THEN ticks ELSE 1
    IN  IF atleast < MaxReload THEN atleast ELSE MaxReload

\* Mutant of Reload: one tick added for the cycle that loads the reload value.
Reload_OffByOne(val, now) ==
    LET dur == checked_duration_since(val, now)
        ticks == IF dur = Null THEN 0 ELSE dur + 1
        atleast == IF ticks > 1 THEN ticks ELSE 1
    IN  IF atleast < MaxReload THEN atleast ELSE MaxReload

\* Mutant of Reload: the ticks compared and subtracted as plain integers.
Reload_PlainOrder(val, now) ==
    LET ticks == IF val > now THEN val - now ELSE 0
        atleast == IF ticks > 1 THEN ticks ELSE 1
    IN  IF atleast < MaxReload THEN atleast ELSE MaxReload

\* Mutant of Reload: without `.min(0xff_ffff)`, so only the cast narrows.
Reload_NoMax(val, now) ==
    LET dur == checked_duration_since(val, now)
        ticks == IF dur = Null THEN 0 ELSE dur
        atleast == IF ticks > 1 THEN ticks ELSE 1
    IN  atleast % CycMod

\* set_compare(): the reload value for a target and a reading of now().
Reload(val, now) ==
    LET dur == checked_duration_since(val, now)
        ticks == IF dur = Null THEN 0 ELSE dur
        atleast == IF ticks > 1 THEN ticks ELSE 1
    IN  IF atleast < MaxReload THEN atleast ELSE MaxReload

\* Mutant of ClearedReload: the reload register is not re-armed.
ClearedReload_Keep == syst_rvr

\* Mutant of ClearedReload: the re-arming compiled into both configurations.
ClearedReload_Unconditional == MaxReload

\* clear_compare_flag(): the reload register afterwards.
ClearedReload == IF extend THEN MaxReload ELSE syst_rvr

\* clear_compare_flag(): the current value register afterwards.
ClearedCurrent == IF extend THEN 0 ELSE syst_cvr

\* The flag the scheduler reads.
DISABLE_INTERRUPT_ON_EMPTY_QUEUE == extend

\* ---------------------------------------------------------- hardware ---
\* SysTick after d clock cycles: a zero current value reloads from RVR on
\* the next cycle, any other value counts down; RVR = 0 stops at zero.
CountDown(cvr, rvr, d) ==
    IF d <= cvr THEN cvr - d
    ELSE IF rvr = 0 THEN 0
    ELSE rvr - ((d - cvr - 1) % (rvr + 1))

\* The instants at which the program is observed: around every wrap of
\* CYCCNT. The gaps between them include 1, 2, CycMod - 1, CycMod and
\* CycMod + 1.
SampleTimes ==
    {t \in 0 .. (MaxWraps + 1) * CycMod - 1 : t % CycMod \in {0, 1, CycMod - 1}}

\* Targets handed to set_compare(), as ticks ahead of the reading (mod the
\* instant's width): around zero, around the largest reload, beyond the
\* width of CYCCNT, and around half the range of either instant type.
Offsets ==
    {0, 1, 2, MaxReload, MaxReload + 1, CycMod + 1,
     CycMod \div 2 - 1, CycMod \div 2, CycMod - 1,
     (HighMod * CycMod) \div 2 - 1, (HighMod * CycMod) \div 2,
     HighMod * CycMod - 1}

Init ==
    /\ extend \in BOOLEAN
    /\ has_cyccnt \in BOOLEAN
    /\ phase = "boot"
    /\ hwops = <<>>
    /\ cyccnt \in {0, CycMod - 1}
    /\ dwt_enabled = FALSE
    /\ wraps = 0
    /\ read_at = 0
    /\ late = FALSE
    /\ syst_enabled = FALSE
    /\ syst_clk = "External"
    /\ syst_rvr \in {0, MaxReload}
    /\ syst_cvr = 0
    /\ cycle_offset = Null
    /\ last = Null
    /\ op = NoOp
    /\ syst_tickint = FALSE
    /\ pending = FALSE
    /\ wake = Null
    /\ isr_pc = "idle"
    /\ reset_at = Null
    /\ call = NoCall

\* Mutant of FreqOk: the frequency is not compared.
FreqOk_Unchecked(sysclk) == TRUE

\* new(): assert!(TIMER_HZ == sysclk)
FreqOk(sysclk) == TIMER_HZ = sysclk

\* new(): assert!(DWT::has_cycle_counter())
CounterOk == has_cyccnt

\* Mutant of NewSteps: the counters started before CYCCNT is cleared.
NewSteps_CountersFirst ==
    <<"enable_trace", "unlock", "has_cycle_counter", "set_clock_source",
      "enable_counter", "enable_cycle_counter", "set_cycle_count">>

\* new(): its hardware operations, in program order.
NewSteps ==
    <<"enable_trace", "unlock", "has_cycle_counter", "set_cycle_count",
      "set_clock_source", "enable_counter", "enable_cycle_counter">>

\* new(): the operations up to and including the check that fails.
NewStepsToCheck == SubSeq(NewSteps, 1, 3)

\* DwtSystick::new(dcb, dwt, systick, sysclk)
New(sysclk) ==
    /\ phase = "boot"
    /\ op' = [NoOp EXCEPT !.name = "new", !.arg = sysclk]
    /\ IF ~FreqOk(sysclk)
       THEN /\ phase' = "aborted"
            /\ hwops' = <<>>
            /\ UNCHANGED <<cyccnt, dwt_enabled, syst_enabled, syst_clk,
                           cycle_offset, last>>
       ELSE IF ~CounterOk
       THEN /\ phase' = "aborted"
            /\ hwops' = NewStepsToCheck
            /\ UNCHANGED <<cyccnt, dwt_enabled, syst_enabled, syst_clk,
                           cycle_offset, last>>
       ELSE /\ phase' = "running"
            /\ hwops' = NewSteps
            /\ cyccnt' = 0
            /\ syst_clk' = "Core"
            /\ syst_enabled' = TRUE
            /\ dwt_enabled' = TRUE
            /\ cycle_offset' = 0
            /\ last' = IF extend THEN 0 ELSE Null
    /\ UNCHANGED <<extend, has_cyccnt, wraps, read_at, late, syst_rvr, syst_cvr,
                   reset_at, call>>

\* Mutant of Now: now() also stores its reading in cycle_offset.
Now_StoresOffset ==
    /\ phase = "running"
    /\ ReadEffect
    /\ op' = [NoOp EXCEPT !.name = "now", !.now = unadjusted_now,
                          !.ret = MonotonicNow]
    /\ reset_at' = Null
    /\ cycle_offset' = unadjusted_now
    /\ UNCHANGED <<extend, hw, phase, hwops, cyccnt, wraps, syst_rvr, syst_cvr,
                   call>>

\* Monotonic::now()
Now ==
    /\ phase = "running"
    /\ ReadEffect
    /\ op' = [NoOp EXCEPT !.name = "now", !.now = unadjusted_now,
                          !.ret = MonotonicNow]
    /\ reset_at' = Null
    /\ UNCHANGED <<extend, hw, phase, hwops, cyccnt, wraps, syst_rvr, syst_cvr,
                   cycle_offset, call>>

\* DwtSystick::adjusted_now(); `checked`: the build checks integer overflow.
AdjustedNow(checked) ==
    /\ phase = "running"
    /\ ReadEffect
    /\ LET ticks == adjusted_ticks(unadjusted_now, checked)
       IN  /\ phase' = IF ticks = Null THEN "panicked" ELSE phase
           /\ op' = [NoOp EXCEPT !.name = "adjusted_now",
                                 !.now = unadjusted_now, !.ret = ticks,
                                 !.gap = IF reset_at = Null THEN Null
                                         ELSE Elapsed - reset_at]
    /\ reset_at' = Null
    /\ UNCHANGED <<extend, hw, hwops, cyccnt, wraps, syst_rvr, syst_cvr,
                   cycle_offset, call>>

\* Monotonic::reset()
Reset ==
    /\ phase = "running"
    /\ ReadEffect
    /\ cycle_offset' = unadjusted_now
    /\ op' = [NoOp EXCEPT !.name = "reset", !.now = unadjusted_now,
                          !.old = cycle_offset]
    /\ reset_at' = Elapsed
    /\ UNCHANGED <<extend, hw, phase, hwops, cyccnt, wraps, syst_rvr, syst_cvr,
                   call>>

\* Monotonic::set_compare(val)
SetCompare(val) ==
    /\ phase = "running"
    /\ ReadEffect
    /\ syst_rvr' = Reload(val, MonotonicNow)
    /\ syst_cvr' = 0
    /\ op' = [NoOp EXCEPT !.name = "set_compare", !.arg = val,
                          !.now = unadjusted_now, !.old = syst_rvr,
                          !.at = Elapsed]
    /\ reset_at' = Null
    /\ UNCHANGED <<extend, hw, phase, hwops, cyccnt, wraps, cycle_offset, call>>

\* Monotonic::zero(): Instant::from_ticks(0)
ZeroTicks == 0

\* Monotonic::zero()
Zero ==
    /\ phase = "running"
    /\ op' = [NoOp EXCEPT !.name = "zero", !.ret = ZeroTicks]
    /\ reset_at' = Null
    /\ UNCHANGED <<extend, hw, phase, hwops, cyccnt, wraps, read_at, late,
                   syst_rvr, syst_cvr, cycle_offset, last, call>>

\* Monotonic::clear_compare_flag()
ClearCompareFlag ==
    /\ phase = "running"
    /\ syst_rvr' = ClearedReload
    /\ syst_cvr' = ClearedCurrent
    /\ op' = [NoOp EXCEPT !.name = "clear_compare_flag", !.old = syst_rvr]
    /\ reset_at' = Null
    /\ UNCHANGED <<extend, hw, phase, hwops, cyccnt, wraps, read_at, late,
                   cycle_offset, last, call>>

\* Monotonic::on_interrupt(), compiled with `extend` only
OnInterrupt ==
    /\ phase = "running"
    /\ extend
    /\ ReadEffect
    /\ op' = [NoOp EXCEPT !.name = "on_interrupt", !.now = unadjusted_now]
    /\ reset_at' = Null
    /\ UNCHANGED <<extend, hw, phase, hwops, cyccnt, wraps, syst_rvr, syst_cvr,
                   cycle_offset, call>>

\* The ghost reset_at at time t: kept while the reset() is still recent.
StillFresh(at, t) == IF at # Null /\ t - at <= Latency THEN at ELSE Null

\* The hardware: time passes until the sample instant t.
Advance(t) ==
    /\ phase = "running"
    /\ dwt_enabled
    /\ t > Elapsed
    /\ cyccnt' = t % CycMod
    /\ wraps' = t \div CycMod
    /\ syst_cvr' = IF syst_enabled
                   THEN CountDown(syst_cvr, syst_rvr, t - Elapsed)
                   ELSE syst_cvr
    /\ op' = NoOp
    /\ reset_at' = StillFresh(reset_at, t)
    /\ UNCHANGED <<extend, hw, phase, hwops, read_at, late, syst_rvr,
                   cycle_offset, last, call>>

\* The adapter called on its own, outside any scheduler: the scheduler's
\* side stays as it is.
CallNew(sysclk) == New(sysclk) /\ UNCHANGED sched
CallNow == Now /\ UNCHANGED sched
CallAdjustedNow(checked) == AdjustedNow(checked) /\ UNCHANGED sched
CallReset == Reset /\ UNCHANGED sched
CallSetCompare(val) == SetCompare(val) /\ UNCHANGED sched
CallZero == Zero /\ UNCHANGED sched
CallClearCompareFlag == ClearCompareFlag /\ UNCHANGED sched
CallOnInterrupt == OnInterrupt /\ UNCHANGED sched
TimePasses(t) == Advance(t) /\ UNCHANGED sched

\* Any call of the adapter, and time passing, in any order.
Next ==
    \/ \E sysclk \in SysClks : CallNew(sysclk)
    \/ CallNow
    \/ \E checked \in BOOLEAN : CallAdjustedNow(checked)
    \/ CallReset
    \/ \E off \in Offsets : CallSetCompare((unadjusted_now + off) % InstMod)
    \/ CallZero
    \/ CallClearCompareFlag
    \/ CallOnInterrupt
    \/ \E t \in SampleTimes : TimePasses(t)

Spec == Init /\ [][Next]_vars

\* ------------------------------------- the adapter under the scheduler ---
\* The scheduler that drives the adapter honours
\* DISABLE_INTERRUPT_ON_EMPTY_QUEUE: it masks the timer interrupt while its
\* queue is empty exactly when the flag allows it. Its interrupt handler
\* runs clear_compare_flag(), then on_interrupt(), then serves the queue.
\* Time advances one clock cycle at a time.

\* Distances ahead of now() at which the application asks for a wake-up.
WakeOffsets == {1, MaxReload, MaxReload + 1}

\* After construction, the down-counter armed with the maximum reload, the
\* queue empty and the interrupt masked only if the flag allows it.
InitIrq ==
    /\ extend \in BOOLEAN
    /\ has_cyccnt = TRUE
    /\ phase = "running"
    /\ hwops = NewSteps
    /\ cyccnt = 0
    /\ dwt_enabled = TRUE
    /\ wraps = 0
    /\ read_at = 0
    /\ late = FALSE
    /\ syst_enabled = TRUE
    /\ syst_clk = "Core"
    /\ syst_rvr = MaxReload
    /\ syst_cvr = 0
    /\ cycle_offset = 0
    /\ last = IF extend THEN 0 ELSE Null
    /\ op = NoOp
    /\ syst_tickint = ~DISABLE_INTERRUPT_ON_EMPTY_QUEUE
    /\ pending = FALSE
    /\ wake = Null
    /\ isr_pc = "idle"
    /\ reset_at = Null
    /\ call = NoCall

\* One clock cycle. The exception is taken before the next cycle and the
\* handler is short: no cycle passes while the exception is pending and
\* enabled, nor while the handler runs.
Tick ==
    /\ phase = "running"
    /\ isr_pc = "idle"
    /\ ~(pending /\ syst_tickint)
    /\ Elapsed + 1 < (MaxWraps + 1) * CycMod
    /\ cyccnt' = (cyccnt + 1) % CycMod
    /\ wraps' = wraps + (cyccnt + 1) \div CycMod
    /\ syst_cvr' = CountDown(syst_cvr, syst_rvr, 1)
    /\ pending' = (pending \/ (syst_tickint /\ syst_cvr = 1))
    /\ op' = NoOp
    /\ reset_at' = StillFresh(reset_at, Elapsed + 1)
    /\ UNCHANGED <<extend, hw, phase, hwops, read_at, late, syst_rvr,
                   cycle_offset, last, syst_tickint, wake, isr_pc, call>>

\* The handler starts: clear_compare_flag().
IrqClear ==
    /\ pending /\ syst_tickint /\ isr_pc = "idle"
    /\ ClearCompareFlag
    /\ pending' = FALSE
    /\ isr_pc' = "cleared"
    /\ UNCHANGED <<syst_tickint, wake>>

\* The handler goes on: on_interrupt() where the configuration has it.
IrqOnInterrupt ==
    /\ isr_pc = "cleared"
    /\ IF extend THEN OnInterrupt ELSE UNCHANGED <<extend, hw, phase, hwops,
           cyccnt, wraps, read_at, late, syst_rvr, syst_cvr, cycle_offset,
           last, op, reset_at, call>>
    /\ isr_pc' = "read"
    /\ UNCHANGED <<syst_tickint, pending, wake>>

\* The handler finds the queue empty: it masks the interrupt if allowed.
IrqEmpty ==
    /\ isr_pc = "read" /\ wake = Null
    /\ syst_tickint' = ~DISABLE_INTERRUPT_ON_EMPTY_QUEUE
    /\ isr_pc' = "idle"
    /\ UNCHANGED <<extend, hw, phase, hwops, cyccnt, wraps, read_at, late,
                   syst_rvr, syst_cvr, cycle_offset, last, op, pending, wake,
                   reset_at, call>>

\* The handler finds the wake-up due: it reads now() and removes it.
IrqDue ==
    /\ isr_pc = "read" /\ wake # Null
    /\ const_cmp(wake, MonotonicNow) \in {"Less", "Equal"}
    /\ Now
    /\ wake' = Null
    /\ syst_tickint' = ~DISABLE_INTERRUPT_ON_EMPTY_QUEUE
    /\ isr_pc' = "idle"
    /\ UNCHANGED pending

\* The handler finds the wake-up not yet due: set_compare(wake).
IrqArm ==
    /\ isr_pc = "read" /\ wake # Null
    /\ const_cmp(wake, MonotonicNow) = "Greater"
    /\ SetCompare(wake)
    /\ isr_pc' = "idle"
    /\ UNCHANGED <<syst_tickint, pending, wake>>

\* The application asks for a wake-up: the scheduler reads now(), queues
\* it, enables the interrupt and pends it.
Schedule(off) ==
    /\ isr_pc = "idle" /\ wake = Null
    /\ Now
    /\ wake' = (MonotonicNow + off) % InstMod
    /\ syst_tickint' = TRUE
    /\ pending' = TRUE
    /\ UNCHANGED isr_pc

\* The application reads the time.
AppNow ==
    /\ isr_pc = "idle"
    /\ ~(pending /\ syst_tickint)
    /\ Now
    /\ UNCHANGED sched

NextIrq ==
    \/ Tick
    \/ IrqClear
    \/ IrqOnInterrupt
    \/ IrqEmpty
    \/ IrqDue
    \/ IrqArm
    \/ \E off \in WakeOffsets : Schedule(off)
    \/ AppNow

SpecIrq == InitIrq /\ [][NextIrq]_vars

\* -------------------------------------------- set_compare, step by step ---
\* set_compare() followed one register write at a time, with the clock
\* running in between, and the down-counter followed cycle by cycle.

\* Distances ahead of now() of the targets armed.
ArmOffsets == {0, 1, 2, MaxReload + 1}

\* Mutant of SetCompareSteps: the current value cleared before the reload
\* register is written.
SetCompareSteps_ClearFirst == <<"clear_current", "set_reload">>

\* set_compare(): its register writes, in program order.
SetCompareSteps == <<"set_reload", "clear_current">>

\* set_compare(val): now() is read and the reload value computed.
ArmBegin(off) ==
    /\ phase = "running" /\ call = NoCall
    /\ ReadEffect
    /\ call' = [name |-> "set_compare", step |-> 1,
                val |-> (MonotonicNow + off) % InstMod, now |-> unadjusted_now,
                reload |-> Reload((MonotonicNow + off) % InstMod, MonotonicNow),
                old |-> syst_rvr, cycled |-> FALSE]
    /\ op' = NoOp
    /\ reset_at' = Null
    /\ UNCHANGED <<extend, hw, phase, hwops, cyccnt, wraps, syst_rvr, syst_cvr,
                   cycle_offset, sched>>

\* set_compare(): the next register write of SetCompareSteps. Writing the
\* current value register clears it and raises no exception.
ArmStep ==
    /\ call.name = "set_compare"
    /\ LET s == SetCompareSteps[call.step]
       IN  /\ syst_rvr' = IF s = "set_reload" THEN call.reload ELSE syst_rvr
           /\ syst_cvr' = IF s = "clear_current" THEN 0 ELSE syst_cvr
    /\ IF call.step = Len(SetCompareSteps)
       THEN /\ call' = NoCall
            /\ op' = [NoOp EXCEPT !.name = "set_compare", !.arg = call.val,
                                  !.now = call.now, !.old = call.old,
                                  !.at = Elapsed]
       ELSE /\ call' = [call EXCEPT !.step = @ + 1, !.cycled = FALSE]
            /\ UNCHANGED op
    /\ UNCHANGED <<extend, hw, phase, hwops, cyccnt, wraps, read_at, late,
                   cycle_offset, last, sched, reset_at>>

\* One clock cycle (at most one between the two register writes), up to
\* the first wrap of CYCCNT. The exception is raised when the down-counter
\* goes from 1 to 0. The record of the last set_compare() is kept while
\* time passes.
ArmCycle ==
    /\ phase = "running"
    /\ call.name = "set_compare" => ~call.cycled
    /\ wraps = 0
    /\ cyccnt' = (cyccnt + 1) % CycMod
    /\ wraps' = wraps + (cyccnt + 1) \div CycMod
    /\ syst_cvr' = CountDown(syst_cvr, syst_rvr, 1)
    /\ pending' = (pending \/ syst_cvr = 1)
    /\ call' = IF call.name = "set_compare"
               THEN [call EXCEPT !.cycled = TRUE] ELSE call
    /\ UNCHANGED <<extend, hw, phase, hwops, read_at, late, syst_rvr,
                   cycle_offset, last, op, syst_tickint, wake, isr_pc,
                   reset_at>>

NextArm ==
    \/ \E off \in ArmOffsets : ArmBegin(off)
    \/ ArmStep
    \/ ArmCycle

SpecArm == InitIrq /\ [][NextArm]_vars

\* ------------------------------------ unadjusted_now() under preemption ---
\* Wide configuration, without the mutual exclusion the caller owes: a
\* task-context unadjusted_now() is followed statement by statement and the
\* interrupt-context on_interrupt() may run, whole, between its read of
\* `last` and its write-back. Here read_at is the true time of the hardware
\* read whose value is in `last`.

InitPreempt == InitIrq /\ extend

\* unadjusted_now(): high and low are read from self.last.
TaskLoad ==
    /\ phase = "running" /\ call = NoCall
    /\ call' = [name |-> "unadjusted_now", pc |-> "loaded", last |-> last,
                last_at |-> read_at, now |-> Null, now_at |-> Null]
    /\ op' = NoOp
    /\ UNCHANGED <<extend, hw, phase, hwops, cyccnt, wraps, read_at, late,
                   syst_rvr, syst_cvr, cycle_offset, last, sched, reset_at>>

\* unadjusted_now(): let now = DWT::cycle_count()
TaskSample ==
    /\ call.name = "unadjusted_now" /\ call.pc = "loaded"
    /\ call' = [call EXCEPT !.pc = "sampled", !.now = cyccnt,
                            !.now_at = Elapsed]
    /\ op' = NoOp
    /\ UNCHANGED <<extend, hw, phase, hwops, cyccnt, wraps, read_at, late,
                   syst_rvr, syst_cvr, cycle_offset, last, sched, reset_at>>

\* Mutant of StoredLast: the high half taken from self.last again at the
\* write-back, the low half from the copy read at the start.
StoredLast_FreshHigh ==
    ExtendLast((last \div CycMod) * CycMod + (call.last % CycMod), call.now)

\* unadjusted_now(): the value written back to self.last.
StoredLast == ExtendLast(call.last, call.now)

\* unadjusted_now(): the overflow test and the write-back of self.last.
TaskStore ==
    /\ call.name = "unadjusted_now" /\ call.pc = "sampled"
    /\ last' = StoredLast
    /\ late' = (late \/ call.now_at - call.last_at >= CycMod)
    /\ read_at' = IF late' THEN 0 ELSE call.now_at
    /\ call' = NoCall
    /\ op' = [NoOp EXCEPT !.name = "now", !.now = StoredLast,
                          !.ret = StoredLast, !.old = last]
    /\ UNCHANGED <<extend, hw, phase, hwops, cyccnt, wraps, syst_rvr, syst_cvr,
                   cycle_offset, sched, reset_at>>

\* The timer interrupt handler runs on_interrupt(), whole: the task cannot
\* run until it has returned.
Preempt == OnInterrupt /\ UNCHANGED sched

NextPreempt ==
    \/ TaskLoad
    \/ TaskSample
    \/ TaskStore
    \/ Preempt
    \/ \E t \in SampleTimes : TimePasses(t)

SpecPreempt == InitPreempt /\ [][NextPreempt]_vars

\* ------------------------------------------- construction, step by step ---
\* new() followed one hardware operation at a time, with the clock running
\* in between: a counter that has been started counts.

\* new(): assert!(TIMER_HZ == sysclk), before any hardware is touched.
NewAssertFreq(sysclk) ==
    /\ phase = "boot" /\ call = NoCall
    /\ IF FreqOk(sysclk)
       THEN /\ call' = [name |-> "new", step |-> 1, sysclk |-> sysclk,
                        cycled |-> FALSE]
            /\ UNCHANGED <<phase, op>>
       ELSE /\ phase' = "aborted"
            /\ op' = [NoOp EXCEPT !.name = "new", !.arg = sysclk]
            /\ UNCHANGED call
    /\ UNCHANGED <<extend, hw, hwops, cyccnt, wraps, read_at, late, syst_rvr,
                   syst_cvr, cycle_offset, last, sched, reset_at>>

\* new(): the next hardware operation of NewSteps.
NewStep ==
    /\ phase = "boot" /\ call.name = "new" /\ call.step <= Len(NewSteps)
    /\ LET s == NewSteps[call.step]
       IN  /\ hwops' = Append(hwops, s)
           /\ cyccnt' = IF s = "set_cycle_count" THEN 0 ELSE cyccnt
           /\ syst_clk' = IF s = "set_clock_source" THEN "Core" ELSE syst_clk
           /\ syst_enabled' = (syst_enabled \/ s = "enable_counter")
           /\ dwt_enabled' = (dwt_enabled \/ s = "enable_cycle_counter")
           /\ IF s = "has_cycle_counter" /\ ~CounterOk
              THEN /\ phase' = "aborted"
                   /\ op' = [NoOp EXCEPT !.name = "new", !.arg = call.sysclk]
                   /\ call' = NoCall
              ELSE /\ call' = [call EXCEPT !.step = @ + 1, !.cycled = FALSE]
                   /\ UNCHANGED <<phase, op>>
    /\ UNCHANGED <<extend, has_cyccnt, wraps, read_at, late, syst_rvr, syst_cvr,
                   cycle_offset, last, sched, reset_at>>

\* new(): the adapter is built and returned.
NewReturn ==
    /\ phase = "boot" /\ call.name = "new" /\ call.step = Len(NewSteps) + 1
    /\ phase' = "running"
    /\ cycle_offset' = 0
    /\ last' = IF extend THEN 0 ELSE Null
    /\ op' = [NoOp EXCEPT !.name = "new", !.arg = call.sysclk]
    /\ call' = NoCall
    /\ UNCHANGED <<extend, hw, hwops, cyccnt, wraps, read_at, late, syst_rvr,
                   syst_cvr, sched, reset_at>>

\* One clock cycle during construction (at most one between two steps).
BootCycle ==
    /\ phase = "boot" /\ call.name = "new" /\ ~call.cycled
    /\ cyccnt' = IF dwt_enabled THEN (cyccnt + 1) % CycMod ELSE cyccnt
    /\ syst_cvr' = IF syst_enabled THEN CountDown(syst_cvr, syst_rvr, 1)
                   ELSE syst_cvr
    /\ call' = [call EXCEPT !.cycled = TRUE]
    /\ UNCHANGED <<extend, hw, phase, hwops, wraps, read_at, late, syst_rvr,
                   cycle_offset, last, op, sched, reset_at>>

NextNew ==
    \/ \E sysclk \in SysClks : NewAssertFreq(sysclk)
    \/ NewStep
    \/ NewReturn
    \/ BootCycle

SpecNew == Init /\ [][NextNew]_vars

\* ------------------------------------------------------------- claims ---
\* The operations that call unadjusted_now().
ReadOps == {"now", "adjusted_now", "reset", "set_compare", "on_interrupt"}

Range(f) == {f[i] : i \in DOMAIN f}

\* Ticks from `now` forward to `t` on the instant's circle.
TicksAhead(t, now) == (t - now) % InstMod

\* The largest forward distance the instant type still orders as "ahead".
HalfRange == InstMod \div 2 - 1

\* C1, the state part: in the wide configuration, after every read that came
\* fewer than CycMod cycles after the one before (and within the range of
\* the 64-bit instant), the value returned and stored in `last` is
\* v + k * CycMod for the raw reading v and the true number of wraps k.
C1_Reconstructed ==
    (extend /\ op.name \in ReadOps /\ ~late /\ wraps < HighMod)
        => /\ last = wraps * CycMod + cyccnt
           /\ op.now = last

\* C1, the step part: under the same conditions `last` never decreases.
C1_NonDecreasing ==
    (extend /\ last # Null /\ ~late' /\ wraps' < HighMod) => last' >= last

\* C1: the wide reconstruction is exact and non-decreasing for reads spaced
\* by fewer than CycMod cycles.
C1_WideReconstruction == [](C1_Reconstructed) /\ [][C1_NonDecreasing]_vars

C1_Witness ==
    /\ extend /\ ~late /\ op.name = "now"
    /\ wraps = 1 /\ cyccnt = 0 /\ last = CycMod

\* C2: in the wide configuration, under the scheduler, fewer than CycMod
\* cycles ever pass between two reads of the counter, and after every read
\* `last` is the true number of cycles elapsed (within the range of the
\* 64-bit instant).
C2_WrapNeverMissed ==
    extend =>
        /\ Elapsed - read_at < CycMod
        /\ (op.name \in ReadOps /\ wraps < HighMod) => last = Elapsed

\* C3: DISABLE_INTERRUPT_ON_EMPTY_QUEUE is false in the wide configuration
\* and true in the narrow one.
C3_FlagPerConfiguration == DISABLE_INTERRUPT_ON_EMPTY_QUEUE = ~extend

\* C4: set_compare(t) with t at or before the reading of now() (equal to
\* it, or in the half range behind it) writes the reload value 1.
C4_PastTargetReloadOne ==
    (op.name = "set_compare"
        /\ (op.arg = op.now \/ TicksAhead(op.arg, op.now) > HalfRange))
        => syst_rvr = 1

C4_Witness ==
    /\ op.name = "set_compare" /\ syst_rvr = 1 /\ op.old = MaxReload
    /\ TicksAhead(op.arg, op.now) = InstMod - 1

\* C5: set_compare(t) with t more than MaxReload ticks ahead of the reading
\* of now() writes the reload value MaxReload, in both configurations.
C5_FarTargetReloadMax ==
    (op.name = "set_compare"
        /\ TicksAhead(op.arg, op.now) > MaxReload
        /\ TicksAhead(op.arg, op.now) <= HalfRange)
        => syst_rvr = MaxReload

C5_Witness ==
    /\ op.name = "set_compare" /\ syst_rvr = MaxReload /\ op.old = 1
    /\ extend /\ TicksAhead(op.arg, op.now) = CycMod + 1

\* C6: set_compare(t) with t between 1 and MaxReload ticks ahead of the
\* reading of now() writes exactly that number of ticks.
C6_NearTargetExactDelta ==
    (op.name = "set_compare"
        /\ TicksAhead(op.arg, op.now) >= 1
        /\ TicksAhead(op.arg, op.now) <= MaxReload)
        => syst_rvr = TicksAhead(op.arg, op.now)

C6_Witness ==
    /\ op.name = "set_compare" /\ syst_rvr = 2 /\ op.old = MaxReload
    /\ TicksAhead(op.arg, op.now) = 2

\* C7 as stated: after reset(), now() returns the unadjusted reading minus
\* cycle_offset.
C7_NowRelativeToReset ==
    op.name = "now" => op.ret = (op.now - cycle_offset) % InstMod

\* C7 as amended: reset() stores the unadjusted reading in cycle_offset;
\* now() keeps returning the unadjusted reading; adjusted_now() returns the
\* reading minus cycle_offset whenever the reading is not below it.
C7_AdjustedNowRelativeToReset ==
    /\ op.name \in ReadOps => op.now = IF extend THEN last ELSE cyccnt
    /\ op.name = "reset" => cycle_offset = op.now
    /\ op.name = "now" => op.ret = op.now
    /\ (op.name = "adjusted_now" /\ op.now >= cycle_offset)
          => op.ret = op.now - cycle_offset

C7_Witness ==
    /\ op.name = "adjusted_now" /\ cycle_offset > 0
    /\ op.now > cycle_offset /\ op.ret = op.now - cycle_offset

\* C8: at every adjusted_now() call cycle_offset is at most the unadjusted
\* reading taken by the call, so the subtraction does not underflow.
C8_OffsetNeverAboveReading ==
    op.name = "adjusted_now" => cycle_offset <= op.now

\* C9: in the wide configuration clear_compare_flag() leaves the reload
\* register at MaxReload and the current value cleared, so the down-counter
\* next reaches zero MaxReload + 1 cycles later and not before.
C9_ClearRearmsMaximum ==
    (extend /\ op.name = "clear_compare_flag")
        => /\ syst_rvr = MaxReload
           /\ syst_cvr = 0
           /\ \A d \in 1 .. MaxReload : CountDown(syst_cvr, syst_rvr, d) > 0
           /\ CountDown(syst_cvr, syst_rvr, MaxReload + 1) = 0

C9_Witness ==
    /\ extend /\ op.name = "clear_compare_flag"
    /\ op.old = 1 /\ syst_rvr = MaxReload /\ syst_cvr = 0

\* C10: construction yields an adapter only if sysclk equals TIMER_HZ and
\* the chip has a cycle counter; otherwise it aborts with neither counter
\* started.
C10_ConstructionChecks ==
    /\ op.name = "new" =>
          (phase = "running" <=> (op.arg = TIMER_HZ /\ has_cyccnt))
    /\ phase \in {"running", "panicked"} => has_cyccnt
    /\ phase \in {"boot", "aborted"} =>
          /\ "enable_counter" \notin Range(hwops)
          /\ "enable_cycle_counter" \notin Range(hwops)
          /\ ~syst_enabled
          /\ ~dwt_enabled
          /\ cycle_offset = Null

C10_Witness ==
    /\ phase = "aborted" /\ op.name = "new" /\ op.arg # TIMER_HZ
    /\ has_cyccnt /\ hwops = <<>>

\* C11: adjusted_now() called right after reset() returns the zero instant
\* plus the cycles that passed between the two hardware reads, in both
\* configurations and whatever the counter was at the reset.
C11_ZeroRightAfterReset ==
    (op.name = "adjusted_now" /\ op.gap # Null) => op.ret = op.gap

\* C12: construction leaves cycle_offset at the ticks of zero(), and while
\* cycle_offset has that value adjusted_now() returns the very reading
\* unadjusted_now() gave it.
C12_ZeroOffsetRoundTrip ==
    /\ (op.name = "new" /\ phase = "running") => cycle_offset = ZeroTicks
    /\ (op.name = "adjusted_now" /\ cycle_offset = ZeroTicks)
          => /\ op.ret = op.now
             /\ op.now = IF extend THEN last ELSE cyccnt

C12_Witness ==
    /\ op.name = "adjusted_now" /\ cycle_offset = ZeroTicks
    /\ wraps = 1 /\ cyccnt = CycMod - 1 /\ op.ret = op.now
    /\ op.now = IF extend THEN 2 * CycMod - 1 ELSE CycMod - 1

\* C13: in the narrow configuration clear_compare_flag() changes neither the
\* reload register, nor the current value of the down-counter, nor
\* cycle_offset.
C13_NarrowClearIsNoOp ==
    [][(~extend /\ op'.name = "clear_compare_flag")
          => UNCHANGED <<syst_rvr, syst_cvr, cycle_offset>>]_vars

C13_Witness ==
    /\ ~extend /\ op.name = "clear_compare_flag"
    /\ op.old = 1 /\ syst_rvr = 1 /\ syst_cvr = 1 /\ cycle_offset > 0

\* The calls that write the reload register.
WritesReload ==
    op.name = "set_compare" \/ (extend /\ op.name = "clear_compare_flag")

\* C14, the state part: after any call that writes the reload register the
\* register holds a value from 1 to MaxReload.
C14_Written == WritesReload => (syst_rvr >= 1 /\ syst_rvr <= MaxReload)

\* C14, the step part: the adapter never changes the reload register to 0
\* nor to a value above MaxReload.
C14_Change ==
    syst_rvr' # syst_rvr => (syst_rvr' >= 1 /\ syst_rvr' <= MaxReload)

\* C14: whatever the targets and the counter values, every value written to
\* the reload register by set_compare() and clear_compare_flag() lies in
\* 1 .. MaxReload; 0 is never written.
C14_ReloadInRange == [](C14_Written) /\ [][C14_Change]_vars

C14_Witness ==
    /\ op.name = "set_compare" /\ op.old = MaxReload /\ syst_rvr = 1
    /\ op.arg = op.now /\ wraps >= 1

\* C15: new() performs enable trace, unlock, the check of cycle-counter
\* support, the reset of CYCCNT to zero, the selection of the core clock,
\* the start of the down-counter and the start of the cycle counter, in
\* this order; CYCCNT is zeroed before either counter runs and stays zero
\* until the cycle counter is started; the adapter returned has
\* cycle_offset = 0 and, in the wide configuration, last = 0.
C15_ConstructionOrder ==
    LET order == <<"enable_trace", "unlock", "has_cycle_counter",
                   "set_cycle_count", "set_clock_source", "enable_counter",
                   "enable_cycle_counter">>
    IN  /\ Len(hwops) <= Len(order)
        /\ hwops = SubSeq(order, 1, Len(hwops))
        /\ (syst_enabled \/ dwt_enabled) => "set_cycle_count" \in Range(hwops)
        /\ ("set_cycle_count" \in Range(hwops) /\ ~dwt_enabled) => cyccnt = 0
        /\ dwt_enabled => syst_enabled
        /\ phase = "running" =>
              /\ hwops = order
              /\ syst_clk = "Core" /\ syst_enabled /\ dwt_enabled
              /\ cycle_offset = 0
              /\ last = IF extend THEN 0 ELSE Null

C15_Witness ==
    /\ phase = "running" /\ op.name = "new" /\ extend
    /\ Len(hwops) = 7 /\ cyccnt = 1 /\ last = 0 /\ cycle_offset = 0

\* A set_compare() has returned and nothing was called since.
Armed == op.name = "set_compare" /\ call = NoCall

\* C16, the state part: once set_compare() has returned, the reload register
\* holds the value it computed and the down-counter is where a counter
\* cleared at the return and reloading from that value would be: the
\* interval armed before plays no part.
C16_CountsFromNewReload ==
    Armed => /\ syst_rvr = Reload(op.arg, op.now)
             /\ syst_cvr = CountDown(0, syst_rvr, Elapsed - op.at)

\* C16, the step part: the write that clears the current value raises no
\* exception, and after set_compare() the exception is raised syst_rvr + 1
\* cycles after the return (and every syst_rvr + 1 cycles from then on).
C16_RaisedByNewReload ==
    /\ (call.name = "set_compare" /\ call'.name # "set_compare")
          => (syst_cvr' = 0 /\ pending' = pending)
    /\ (Armed /\ Armed' /\ syst_cvr = 1 /\ syst_cvr' = 0)
          => (Elapsed' - op.at) % (syst_rvr + 1) = 0
    /\ (Armed /\ Armed' /\ Elapsed' - op.at = syst_rvr + 1)
          => (syst_cvr = 1 /\ syst_cvr' = 0)

\* C16: set_compare() writes the reload register and then clears the
\* current value; the clearing raises no exception and the new reload value
\* is loaded on the next cycle, so the next exception is determined by the
\* reload value just written alone.
C16_RearmedFromNewReload ==
    [](C16_CountsFromNewReload) /\ [][C16_RaisedByNewReload]_vars

C16_Witness ==
    /\ Armed /\ op.old = MaxReload /\ syst_rvr = 1
    /\ Elapsed - op.at = 2 /\ syst_cvr = 0 /\ pending

\* C17, the state part: reset() stores the reading it took.
C17_ResetStores ==
    op.name = "reset" => (cycle_offset = op.now /\ op.old # Null)

\* C17, the step part: a step that changes the cycle_offset of the adapter
\* is a reset(); in the wide configuration (within the range of the 64-bit
\* instant) a reset() does not decrease it.
C17_OnlyReset ==
    /\ (cycle_offset # Null /\ cycle_offset' # cycle_offset)
          => op'.name = "reset"
    /\ (op'.name \in {"now", "adjusted_now", "set_compare", "zero",
                       "clear_compare_flag", "on_interrupt", "none"})
          => cycle_offset' = cycle_offset
    /\ (extend /\ op'.name = "reset" /\ wraps' < HighMod)
          => cycle_offset' >= cycle_offset

\* C17: cycle_offset is written by reset() alone, once per call, with the
\* reading the call took; every other operation leaves it as it was; in
\* the wide configuration successive reset() calls never decrease it.
C17_OffsetOnlyByReset == [](C17_ResetStores) /\ [][C17_OnlyReset]_vars

C17_Witness ==
    /\ extend /\ op.name = "reset" /\ wraps = 1
    /\ op.old = 1 /\ cycle_offset = CycMod + 1

\* C18: in the narrow configuration set_compare() orders the target and the
\* reading of now() modulo CycMod: a target d ticks ahead, 1 <= d <=
\* MaxReload, gives the reload value d also when the target is the smaller
\* integer; a target in the half range behind now() is treated as due
\* (reload value 1); a target that is ahead by 2 ticks or more, up to the
\* half range, is not (reload value min(d, MaxReload), never 1).
C18_NarrowWrapAwareOrder ==
    (~extend /\ op.name = "set_compare") =>
        LET d == TicksAhead(op.arg, op.now)
        IN  /\ (d >= 1 /\ d <= MaxReload) => syst_rvr = d
            /\ d > HalfRange => syst_rvr = 1
            /\ (d >= 2 /\ d <= HalfRange)
                  => /\ syst_rvr = IF d < MaxReload THEN d ELSE MaxReload
                     /\ syst_rvr # 1

C18_Witness ==
    /\ ~extend /\ op.name = "set_compare"
    /\ op.now = CycMod - 1 /\ op.arg = 1 /\ syst_rvr = 2

\* C19: wide configuration, on_interrupt() preempting a task-context
\* unadjusted_now() anywhere between its read of `last` and its write-back:
\* as long as every hardware read came fewer than CycMod cycles after the
\* read that produced the `last` value it was combined with (and within the
\* range of the 64-bit instant), every value written to `last` is the true
\* number of cycles elapsed at the hardware read of its low half: no wrap
\* is lost and none is counted twice.
C19_NoWrapLostUnderPreemption ==
    (extend /\ ~late /\ wraps < HighMod)
        => /\ last \div CycMod = read_at \div CycMod
           /\ last % CycMod = read_at % CycMod
           /\ op.name \in {"now", "on_interrupt"} => op.now = last

C19_Witness ==
    /\ extend /\ ~late /\ op.name = "now"
    /\ op.old = CycMod /\ last = CycMod - 1 /\ wraps = 1

=============================================================================
